---- MODULE Spec2Model ----
(***************************************************************************)
(* A model of env_helper.py: EnvFile.read, EnvComparator.compare,          *)
(* EnvFormatter.format and the driver main().                              *)
(*                                                                         *)
(* A string is a sequence of one-character strings; a file is the sequence *)
(* of its lines, each without its line terminator.                         *)
(***************************************************************************)
EXTENDS Integers, Sequences, FiniteSets, TLC

VARIABLES
    pc,                \* position of the run
    file,              \* EnvFile.read: the raw lines taken from the file so far
    entries,           \* EnvFile.entries: key -> EnvEntry
    current_comments,  \* EnvFile.read: the pending comment lines
    formatted_lines,   \* EnvFormatter.format: the list of emitted lines
    output,            \* EnvFormatter.format: the returned text
    mode,              \* main: "compare" or "format"
    args,              \* main: the paths given on the command line
    fs,                \* the file system: path -> [exists, readable, lines]
    envs,              \* main: the mappings parsed so far, in reading order
    result,            \* main: what EnvComparator.compare returned
    stdout,            \* what the run printed to standard output, in order
    stderr,            \* what the run printed to standard error, in order
    status             \* the exit status of the run (-1 while it runs)

vars == <<pc, file, entries, current_comments, formatted_lines, output,
          mode, args, fs, envs, result, stdout, stderr, status>>

readerVars == <<file, entries, current_comments, formatted_lines, output>>
driverVars == <<mode, args, fs, envs, result, stdout, stderr, status>>

----------------------------------------------------------------------------
(* Bounds *)

\* the most lines a file read in Spec holds
MaxLines == 4
\* the most lines a file of the driver's file system holds
MaxFsLines == 2

----------------------------------------------------------------------------
(* Strings *)

\* the code point of a character: Python orders str values by code point
Ord(c) ==
    CASE c = "\n" -> 10
      [] c = " " -> 32
      [] c = "#" -> 35
      [] c = "1" -> 49
      [] c = "2" -> 50
      [] c = "3" -> 51
      [] c = "4" -> 52
      [] c = "=" -> 61
      [] c = "A" -> 65
      [] c = "B" -> 66
      [] c = "X" -> 88
      [] c = "Y" -> 89
      [] c = "Z" -> 90
      [] c = "_" -> 95

\* str.strip() removes leading and trailing whitespace, the line terminator included
IsSpace(c) == c \in {" ", "\n"}

RECURSIVE LStrip(_)
LStrip(s) ==
    IF s = <<>> THEN s
    ELSE IF IsSpace(Head(s)) THEN LStrip(Tail(s)) ELSE s

RECURSIVE RStrip(_)
RStrip(s) ==
    IF s = <<>> THEN s
    ELSE IF IsSpace(s[Len(s)]) THEN RStrip(SubSeq(s, 1, Len(s) - 1)) ELSE s

\* line.strip()
Strip(s) == RStrip(LStrip(s))

\* c in s
Contains(s, c) == \E i \in 1..Len(s) : s[i] = c

\* the index of the first c in s, 0 when there is none
Find(s, c) ==
    IF Contains(s, c)
    THEN CHOOSE i \in 1..Len(s) : s[i] = c /\ \A j \in 1..(i - 1) : s[j] # c
    ELSE 0

\* s.split(c, 1) of a string that contains c: the text before and after the first c
SplitOnce(s, c) ==
    LET i == Find(s, c)
    IN  <<SubSeq(s, 1, i - 1), SubSeq(s, i + 1, Len(s))>>

\* a < b for two str values: lexicographic by code point
StrLess(a, b) ==
    \E i \in 1..Len(b) :
        /\ i <= Len(a) + 1
        /\ \A j \in 1..(i - 1) : a[j] = b[j]
        /\ (i = Len(a) + 1 \/ Ord(a[i]) < Ord(b[i]))

\* sorted(S) for a set of strings
RECURSIVE Sorted(_)
Sorted(S) ==
    IF S = {} THEN <<>>
    ELSE LET m == CHOOSE x \in S : \A y \in S \ {x} : StrLess(x, y)
         IN  <<m>> \o Sorted(S \ {m})

\* '\n'.join(lines)
RECURSIVE Join(_)
Join(lines) ==
    IF lines = <<>> THEN <<>>
    ELSE IF Len(lines) = 1 THEN lines[1]
    ELSE lines[1] \o <<"\n">> \o Join(Tail(lines))

\* the lines `for line in f` yields for a file holding text, each without its
\* terminator: the text is cut after every "\n", and a last piece that is empty
\* is no line
RECURSIVE SplitLines(_)
SplitLines(text) ==
    IF text = <<>> THEN <<>>
    ELSE LET i == Find(text, "\n")
         IN  IF i = 0 THEN <<text>>
             ELSE <<SubSeq(text, 1, i - 1)>> \o SplitLines(SubSeq(text, i + 1, Len(text)))

----------------------------------------------------------------------------
(* EnvEntry *)

EnvEntry(key, value, comments) ==
    [key |-> key, value |-> value, comments |-> comments]

\* the prefix taken to be the whole key
PrefixWholeKey(key) == key

\* EnvEntry.prefix: key.split('_')[0] if '_' in key else key
Prefix(key) ==
    IF Contains(key, "_") THEN SplitOnce(key, "_")[1] ELSE key

----------------------------------------------------------------------------
(* EnvFile *)

\* the dict d after d[k] = v
Put(d, k, v) == [x \in (DOMAIN d) \cup {k} |-> IF x = k THEN v ELSE d[x]]

\* EnvFile.__init__: no entries; read() starts with no pending comments
NewEnvFile == [entries |-> <<>>, current_comments |-> <<>>]

\* which branch of the loop body of read() a raw line takes
LineKind(raw) ==
    LET line == Strip(raw)
    IN  IF line = <<>> THEN "blank"
        ELSE IF Head(line) = "#" THEN "comment"
        ELSE IF Contains(line, "=") THEN "assignment"
        ELSE "other"

\* a blank line that leaves the pending comments
OnBlankKeep(st, raw) == st

\* if not line: current_comments = []
OnBlank(st, raw) == [st EXCEPT !.current_comments = <<>>]

\* if line.startswith('#'): current_comments.append(line)
OnComment(st, raw) ==
    [st EXCEPT !.current_comments = Append(st.current_comments, Strip(raw))]

\* an assignment that keeps the entry a key already has
OnAssignmentKeepFirst(st, raw) ==
    LET kv == SplitOnce(Strip(raw), "=")
        key == Strip(kv[1])
        value == Strip(kv[2])
    IN  [entries |-> IF key \in DOMAIN st.entries THEN st.entries
                     ELSE Put(st.entries, key, EnvEntry(key, value, st.current_comments)),
         current_comments |-> <<>>]

\* if '=' in line: the entry is stored under its key, the comments are reset
OnAssignment(st, raw) ==
    LET kv == SplitOnce(Strip(raw), "=")
        key == Strip(kv[1])
        value == Strip(kv[2])
    IN  [entries |-> Put(st.entries, key, EnvEntry(key, value, st.current_comments)),
         current_comments |-> <<>>]

\* any other line taken as the end of a comment block
OnOtherReset(st, raw) == [st EXCEPT !.current_comments = <<>>]

\* a line that is not blank, no comment and holds no '=': no branch takes it
OnOther(st, raw) == st

\* one pass of the loop body of read()
ReadLine(st, raw) ==
    CASE LineKind(raw) = "blank" -> OnBlank(st, raw)
      [] LineKind(raw) = "comment" -> OnComment(st, raw)
      [] LineKind(raw) = "assignment" -> OnAssignment(st, raw)
      [] LineKind(raw) = "other" -> OnOther(st, raw)

\* EnvFile.read over all the lines of a file
RECURSIVE ReadFrom(_, _)
ReadFrom(st, lines) ==
    IF lines = <<>> THEN st
    ELSE ReadFrom(ReadLine(st, Head(lines)), Tail(lines))

ReadLines(lines) == ReadFrom(NewEnvFile, lines)

\* EnvFile.get_sorted_entries
GetSortedEntries(ents) ==
    LET keys == Sorted(DOMAIN ents)
    IN  [i \in 1..Len(keys) |-> ents[keys[i]]]

----------------------------------------------------------------------------
(* EnvFormatter *)

\* the entry written with ':' for '='
EntryLineColon(entry) == entry.key \o <<":">> \o entry.value

\* f"{entry.key}={entry.value}"
EntryLine(entry) == entry.key \o <<"=">> \o entry.value

\* the loop of format(): has_prev is `current_prefix is not None`
RECURSIVE FormatLoop(_, _, _, _)
FormatLoop(sorted, has_prev, current_prefix, lines) ==
    IF sorted = <<>> THEN lines
    ELSE LET entry == Head(sorted)
             prefix == Prefix(entry.key)
             sep == IF has_prev /\ prefix # current_prefix THEN <<(<<>>)>> ELSE <<>>
         IN  FormatLoop(Tail(sorted), TRUE, prefix,
                        lines \o sep \o entry.comments \o <<EntryLine(entry)>>)

\* the lines format() collects
FormatLines(ents) == FormatLoop(GetSortedEntries(ents), FALSE, <<>>, <<>>)

\* EnvFormatter.format
Format(ents) == Join(FormatLines(ents))

----------------------------------------------------------------------------
(* EnvComparator *)

\* compare() without the test on the values
CompareAllCommon(env1, env2) ==
    LET common == Sorted((DOMAIN env1) \cap (DOMAIN env2))
    IN  << Sorted((DOMAIN env1) \ (DOMAIN env2)),
           Sorted((DOMAIN env2) \ (DOMAIN env1)),
           [i \in 1..Len(common) |->
               <<common[i], <<env1[common[i]].value, env2[common[i]].value>>>>] >>

\* EnvComparator.compare: (unique_to_file1, unique_to_file2, different_values),
\* the dict different_values as its items in insertion order
Compare(env1, env2) ==
    LET keys1 == DOMAIN env1
        keys2 == DOMAIN env2
        Differs(key) == env1[key].value # env2[key].value
        different == SelectSeq(Sorted(keys1 \cap keys2), Differs)
    IN  << Sorted(keys1 \ keys2),
           Sorted(keys2 \ keys1),
           [i \in 1..Len(different) |->
               <<different[i], <<env1[different[i]].value, env2[different[i]].value>>>>] >>

----------------------------------------------------------------------------
(* Spec: one EnvFormatter run, EnvFile.read line by line and then format() *)

\* the raw lines a file is made of
Lines ==
    { <<" ">>,
      <<"#", "A">>,
      <<" ", "#", "=">>,
      <<"A", "=", "B">>,
      <<"A", " ", "=", " ", "A", "=">>,
      <<"A", "A", "=">>,
      <<"A", "_", "A", "=", "A">>,
      <<"_", "A", "=">>,
      <<"=", "A">>,
      <<"A", "B">> }

LinesOfKind(kind) == {raw \in Lines : LineKind(raw) = kind}

\* the driver is not part of Spec
DriverIdle ==
    /\ mode = "none"
    /\ args = <<>>
    /\ fs = <<>>
    /\ envs = <<>>
    /\ result = <<>>
    /\ stdout = <<>>
    /\ stderr = <<>>
    /\ status = -1

\* EnvFormatter.__init__ has made the EnvFile and read() has opened the file
Init ==
    /\ pc = "reading"
    /\ file = <<>>
    /\ entries = NewEnvFile.entries
    /\ current_comments = NewEnvFile.current_comments
    /\ formatted_lines = <<>>
    /\ output = <<>>
    /\ DriverIdle

\* read() takes raw, the next line of the file, and runs the loop body on it
Take(raw) ==
    LET st == ReadLine([entries |-> entries, current_comments |-> current_comments], raw)
    IN  /\ file' = Append(file, raw)
        /\ entries' = st.entries
        /\ current_comments' = st.current_comments
        /\ UNCHANGED <<pc, formatted_lines, output>>
        /\ UNCHANGED driverVars

\* the next line is blank
ReadBlank ==
    /\ pc = "reading"
    /\ Len(file) < MaxLines
    /\ \E raw \in LinesOfKind("blank") : Take(raw)

\* the next line is a comment
ReadComment ==
    /\ pc = "reading"
    /\ Len(file) < MaxLines
    /\ \E raw \in LinesOfKind("comment") : Take(raw)

\* the next line holds an '='
ReadAssignment ==
    /\ pc = "reading"
    /\ Len(file) < MaxLines
    /\ \E raw \in LinesOfKind("assignment") : Take(raw)

\* the next line is none of these
ReadOther ==
    /\ pc = "reading"
    /\ Len(file) < MaxLines
    /\ \E raw \in LinesOfKind("other") : Take(raw)

\* the file has no more lines: read() returns
EndOfFile ==
    /\ pc = "reading"
    /\ pc' = "read"
    /\ UNCHANGED <<file, entries, current_comments, formatted_lines, output>>
    /\ UNCHANGED driverVars

\* EnvFormatter.format
DoFormat ==
    /\ pc = "read"
    /\ formatted_lines' = FormatLines(entries)
    /\ output' = Format(entries)
    /\ pc' = "formatted"
    /\ UNCHANGED <<file, entries, current_comments>>
    /\ UNCHANGED driverVars

Next ==
    \/ ReadBlank
    \/ ReadComment
    \/ ReadAssignment
    \/ ReadOther
    \/ EndOfFile
    \/ DoFormat

Spec == Init /\ [][Next]_vars

----------------------------------------------------------------------------
(* The vocabulary of the claims about EnvFile.read, stated over the lines read *)

\* the lines of `file` that are assignment lines
AssignmentLines == {i \in 1..Len(file) : LineKind(file[i]) = "assignment"}

\* the key and the value an assignment line states: the trimmed text before and
\* after its first '='
KeyOf(raw) ==
    LET line == Strip(raw)
        eq == CHOOSE i \in 1..Len(line) : line[i] = "=" /\ \A j \in 1..(i - 1) : line[j] # "="
    IN  Strip(SubSeq(line, 1, eq - 1))

ValueOf(raw) ==
    LET line == Strip(raw)
        eq == CHOOSE i \in 1..Len(line) : line[i] = "=" /\ \A j \in 1..(i - 1) : line[j] # "="
    IN  Strip(SubSeq(line, eq + 1, Len(line)))

SetMax(S) == CHOOSE x \in S : \A y \in S : y <= x

\* the assignment lines of key k, and the last of them: its defining line
AssignmentsOf(k) == {i \in AssignmentLines : KeyOf(file[i]) = k}

DefiningLine(k) == SetMax(AssignmentsOf(k))

\* the nearest blank or assignment line before line i (0: the start of the file)
Barrier(i) ==
    SetMax({0} \cup {j \in 1..(i - 1) : LineKind(file[j]) \in {"blank", "assignment"}})

IsCommentLine(raw) == LineKind(raw) = "comment"

\* the trimmed comment lines after line i and before line j, in file order
CommentsBetween(i, j) ==
    LET cs == SelectSeq(SubSeq(file, i + 1, j - 1), IsCommentLine)
    IN  [n \in 1..Len(cs) |-> Strip(cs[n])]

\* the comment block of line i
CommentBlock(i) == CommentsBetween(Barrier(i), i)

RemoveAt(s, i) == SubSeq(s, 1, i - 1) \o SubSeq(s, i + 1, Len(s))

\* the key -> value pairs of a mapping
KeyValues(ents) == {<<k, ents[k].value>> : k \in DOMAIN ents}

----------------------------------------------------------------------------
(* Claims about EnvFile.read *)

\* C4: when a key is assigned more than once, the mapping holds one entry for
\* it, whose value and comments are those of the last assignment line of that
\* key; nothing of an earlier occurrence is kept.
LastAssignmentWins ==
    /\ DOMAIN entries = {KeyOf(file[i]) : i \in AssignmentLines}
    /\ \A k \in DOMAIN entries :
          /\ entries[k].key = k
          /\ entries[k].value = ValueOf(file[DefiningLine(k)])
          /\ entries[k].comments = CommentBlock(DefiningLine(k))

\* C4, its case: a key assigned twice, with another value and other comments
\* the second time
DuplicateKeyRead ==
    \E k \in DOMAIN entries :
        \E i \in AssignmentsOf(k) :
            /\ k # <<>>
            /\ i < DefiningLine(k)
            /\ ValueOf(file[i]) # ValueOf(file[DefiningLine(k)])
            /\ CommentBlock(i) # <<>>
            /\ entries[k].comments = <<>>

\* C5: the comments of an entry are the comment lines between the nearest
\* blank or assignment line before its defining line and that line, in file
\* order; a comment block followed by a blank line is attached to nothing, and
\* no comment line is attached to two assignment lines.
CommentsAttach ==
    /\ \A k \in DOMAIN entries :
          LET i == DefiningLine(k)
          IN  /\ entries[k].comments = CommentBlock(i)
              /\ (i > 1 /\ LineKind(file[i - 1]) \in {"blank", "assignment"})
                    => entries[k].comments = <<>>
              /\ \A j \in AssignmentLines :
                    j < i => Len(entries[k].comments) <= Len(CommentsBetween(j, i))
    /\ pc = "reading" => current_comments = CommentBlock(Len(file) + 1)

\* C5, its case: a comment line, a blank line, then an assignment line
CommentBlockDiscarded ==
    \E k \in DOMAIN entries :
        LET i == DefiningLine(k)
        IN  /\ i >= 3
            /\ LineKind(file[i - 1]) = "blank"
            /\ LineKind(file[i - 2]) = "comment"
            /\ entries[k].comments = <<>>

\* C7: a line that is not blank, no comment and holds no '=' changes nothing:
\* reading the file without it gives the same mapping and pending comments.
OtherLineIgnored ==
    \A i \in 1..Len(file) :
        LineKind(file[i]) = "other" =>
            ReadLines(RemoveAt(file, i))
                = [entries |-> entries, current_comments |-> current_comments]

\* C7, its case: such a line between a comment line and the assignment line
\* that takes the comment
OtherLineRead ==
    \E i \in 2..(Len(file) - 1) :
        /\ LineKind(file[i]) = "other"
        /\ LineKind(file[i - 1]) = "comment"
        /\ LineKind(file[i + 1]) = "assignment"
        /\ entries[KeyOf(file[i + 1])].comments # <<>>

\* C8: no entry is stored under the empty key.
KeysNonEmpty == \A k \in DOMAIN entries : k # <<>>

----------------------------------------------------------------------------
(* Claims about EnvFormatter.format *)

\* the position of key k among the keys in ascending order
Rank(k) == Cardinality({x \in DOMAIN entries : StrLess(x, k)}) + 1

KeyAt(i) == CHOOSE k \in DOMAIN entries : Rank(k) = i

\* the text of a key before its first '_', or the whole key
TextBeforeUnderscore(k) ==
    IF \E i \in 1..Len(k) : k[i] = "_"
    THEN SubSeq(k, 1, (CHOOSE i \in 1..Len(k) : k[i] = "_" /\ \A j \in 1..(i - 1) : k[j] # "_") - 1)
    ELSE k

\* the i-th entry in key order starts a new prefix group
Separated(i) ==
    i > 1 /\ TextBeforeUnderscore(KeyAt(i)) # TextBeforeUnderscore(KeyAt(i - 1))

\* what is emitted for the i-th entry in key order
Block(i) ==
    LET e == entries[KeyAt(i)]
    IN  (IF Separated(i) THEN <<(<<>>)>> ELSE <<>>)
            \o e.comments \o <<e.key \o <<"=">> \o e.value>>

RECURSIVE Blocks(_)
Blocks(n) == IF n = 0 THEN <<>> ELSE Blocks(n - 1) \o Block(n)

BlankLines == {n \in 1..Len(formatted_lines) : formatted_lines[n] = <<>>}

\* the emitted line that states key k
EntryLineOf(k) ==
    CHOOSE n \in 1..Len(formatted_lines) :
        formatted_lines[n] = k \o <<"=">> \o entries[k].value

\* C2: parsing the text format() returns gives the same key -> value pairs as
\* parsing the original file.
RoundTrip ==
    pc = "formatted" =>
        KeyValues(ReadLines(SplitLines(output)).entries) = KeyValues(entries)

\* C2, its case: a formatted file with a value that holds '=', an empty value,
\* a key with an underscore and a key without
RoundTripCase ==
    /\ pc = "formatted"
    /\ \E k \in DOMAIN entries : Contains(entries[k].value, "=")
    /\ \E k \in DOMAIN entries : entries[k].value = <<>>
    /\ \E k \in DOMAIN entries : Contains(k, "_")
    /\ \E k \in DOMAIN entries : k # <<>> /\ ~Contains(k, "_")

\* C6: format() emits the entries in ascending key order, each as its comment
\* lines and then key=value, with one blank line before each entry but the
\* first whose prefix differs from that of the entry before it, and no other
\* blank line; an empty prefix is a prefix like any other.
FormatLayout ==
    pc = "formatted" =>
        /\ formatted_lines = Blocks(Cardinality(DOMAIN entries))
        /\ Cardinality(BlankLines)
              = Cardinality({i \in 1..Cardinality(DOMAIN entries) : Separated(i)})

\* C6, its case: an entry with an empty prefix after a blank line, and two
\* adjacent entries of one prefix with no blank line between them
FormatLayoutCase ==
    /\ pc = "formatted"
    /\ \E i \in 1..Cardinality(DOMAIN entries) :
          Separated(i) /\ TextBeforeUnderscore(KeyAt(i)) = <<>>
    /\ \E i \in 2..Cardinality(DOMAIN entries) : ~Separated(i)

\* C10: the entries of one prefix form one contiguous group of the output, so
\* there is one blank line fewer than there are prefixes. (Stated for the files
\* whose keys are all non-empty, so that it does not rest on the empty key.)
PrefixGroupsContiguous ==
    (pc = "formatted" /\ DOMAIN entries # {} /\ KeysNonEmpty) =>
        /\ \A k1, k2 \in DOMAIN entries :
              (Prefix(k1) = Prefix(k2) /\ EntryLineOf(k1) < EntryLineOf(k2)) =>
                  /\ \A n \in EntryLineOf(k1)..EntryLineOf(k2) : n \notin BlankLines
                  /\ \A k3 \in DOMAIN entries :
                        (EntryLineOf(k1) < EntryLineOf(k3) /\ EntryLineOf(k3) < EntryLineOf(k2))
                            => Prefix(k3) = Prefix(k1)
        /\ Cardinality(BlankLines) = Cardinality({Prefix(k) : k \in DOMAIN entries}) - 1

----------------------------------------------------------------------------
(* main *)

\* a printed line: the text of the f-string and the values it interpolates
Msg(fmt, values) == [fmt |-> fmt, values |-> values]

\* the existence check with `and` for `or`
AllMissing(paths) == \A i \in 1..Len(paths) : ~fs[paths[i]].exists

\* not file1.exists() or not file2.exists(); not file_path.exists()
AnyMissing(paths) == \E i \in 1..Len(paths) : ~fs[paths[i]].exists

\* the message of compare mode in either mode
MissingMessageGeneric(m, paths) ==
    <<Msg("Error: One or both files do not exist", <<>>)>>

\* what main() prints to standard error when the existence check fails
MissingMessage(m, paths) ==
    IF m = "compare"
    THEN <<Msg("Error: One or both files do not exist", <<>>)>>
    ELSE <<Msg("Error: File {} does not exist", <<paths[1]>>)>>

\* what the handler of main() prints for the exception open() raises on path:
\* str(e) of the OSError names the path
ErrorMessage(path) == <<Msg("Error: {}", <<path>>)>>

\* the print calls of compare mode
PrintComparison(paths, res) ==
    <<Msg("=== Keys unique to {} ===", <<paths[1]>>)>>
    \o [i \in 1..Len(res[1]) |-> Msg("{}", <<res[1][i]>>)]
    \o <<Msg("\n=== Keys unique to {} ===", <<paths[2]>>)>>
    \o [i \in 1..Len(res[2]) |-> Msg("{}", <<res[2][i]>>)]
    \o <<Msg("\n=== Keys with different values ===", <<>>)>>
    \o [i \in 1..(3 * Len(res[3])) |->
          LET item == res[3][(i + 2) \div 3]
          IN  CASE i % 3 = 1 -> Msg("{}:", <<item[1]>>)
                [] i % 3 = 2 -> Msg("  {}: {}", <<paths[1], item[2][1]>>)
                [] i % 3 = 0 -> Msg("  {}: {}", <<paths[2], item[2][2]>>)]

----------------------------------------------------------------------------
(* SpecDriver: one run of main() over a file system *)

Paths == {"a.env", "b.env"}

FsLines ==
    { <<"X", "=", "1">>,
      <<"Y", "=", "2">>,
      <<"Y", "=", "3">>,
      <<"Z", "=", "4">> }

FsFiles == UNION {[1..n -> FsLines] : n \in 0..MaxFsLines}

\* a path names nothing, something open() fails on, or a file
FileStates ==
    { [exists |-> FALSE, readable |-> FALSE, lines |-> <<>>],
      [exists |-> TRUE, readable |-> FALSE, lines |-> <<>>] }
    \cup {[exists |-> TRUE, readable |-> TRUE, lines |-> f] : f \in FsFiles}

ReaderIdle ==
    /\ file = <<>>
    /\ entries = <<>>
    /\ current_comments = <<>>
    /\ formatted_lines = <<>>

\* argparse has accepted the command line
DriverInit ==
    /\ pc = "start"
    /\ mode \in {"compare", "format"}
    /\ args \in IF mode = "compare" THEN [1..2 -> Paths] ELSE [1..1 -> Paths]
    /\ fs \in [Paths -> FileStates]
    /\ envs = <<>>
    /\ result = <<>>
    /\ output = <<>>
    /\ stdout = <<>>
    /\ stderr = <<>>
    /\ status = -1
    /\ ReaderIdle

\* the existence check of either mode
CheckExists ==
    /\ pc = "start"
    /\ IF AnyMissing(args)
       THEN /\ stderr' = stderr \o MissingMessage(mode, args)
            /\ status' = 1
            /\ pc' = "exit"
       ELSE /\ pc' = "read"
            /\ UNCHANGED <<stderr, status>>
    /\ UNCHANGED <<mode, args, fs, envs, result, stdout>>
    /\ UNCHANGED readerVars

\* EnvComparator.__init__ and EnvFormatter.__init__: the next file of the mode
\* is opened and read; an exception ends the run in the handler of main()
ReadNext ==
    /\ pc = "read"
    /\ LET path == args[Len(envs) + 1]
       IN  IF fs[path].exists /\ fs[path].readable
           THEN /\ envs' = Append(envs, ReadLines(fs[path].lines).entries)
                /\ pc' = IF Len(envs) + 1 < Len(args) THEN "read"
                         ELSE IF mode = "compare" THEN "compare" ELSE "format"
                /\ UNCHANGED <<stderr, status>>
           ELSE /\ stderr' = stderr \o ErrorMessage(path)
                /\ status' = 1
                /\ pc' = "exit"
                /\ UNCHANGED envs
    /\ UNCHANGED <<mode, args, fs, result, stdout>>
    /\ UNCHANGED readerVars

\* comparator.compare()
DoCompare ==
    /\ pc = "compare"
    /\ result' = Compare(envs[1], envs[2])
    /\ pc' = "print"
    /\ UNCHANGED <<mode, args, fs, envs, stdout, stderr, status>>
    /\ UNCHANGED readerVars

\* the prints of compare mode; main() returns
DoPrintComparison ==
    /\ pc = "print"
    /\ stdout' = stdout \o PrintComparison(args, result)
    /\ status' = 0
    /\ pc' = "exit"
    /\ UNCHANGED <<mode, args, fs, envs, result, stderr>>
    /\ UNCHANGED readerVars

\* print(formatter.format()); main() returns
DoPrintFormatted ==
    /\ pc = "format"
    /\ output' = Format(envs[1])
    /\ stdout' = stdout \o <<Msg("{}", <<Format(envs[1])>>)>>
    /\ status' = 0
    /\ pc' = "exit"
    /\ UNCHANGED <<mode, args, fs, envs, result, stderr>>
    /\ UNCHANGED <<file, entries, current_comments, formatted_lines>>

DriverNext ==
    \/ CheckExists
    \/ ReadNext
    \/ DoCompare
    \/ DoPrintComparison
    \/ DoPrintFormatted

SpecDriver == DriverInit /\ [][DriverNext]_vars

----------------------------------------------------------------------------
(* Claims about EnvComparator.compare and main *)

Range(s) == {s[i] : i \in 1..Len(s)}

\* s lists its strings in ascending order, none twice
Ascending(s) == \A i, j \in 1..Len(s) : i < j => StrLess(s[i], s[j])

\* compare() has returned
Compared == pc = "print" \/ (pc = "exit" /\ mode = "compare" /\ status = 0)

\* a path given on the command line names nothing
SomeArgMissing == \E i \in 1..Len(args) : ~fs[args[i]].exists

\* open() fails on a path given on the command line
SomeArgUnreadable == \E i \in 1..Len(args) : ~fs[args[i]].readable

Mentions(msgs, path) ==
    \E n \in 1..Len(msgs) : \E j \in 1..Len(msgs[n].values) : msgs[n].values[j] = path

\* C3: in either mode, when a named path does not exist the run exits with
\* status 1 and its error message names a path that does not exist.
MissingFileNamed ==
    (pc = "exit" /\ SomeArgMissing) =>
        /\ status = 1
        /\ \E i \in 1..Len(args) : ~fs[args[i]].exists /\ Mentions(stderr, args[i])

\* C3 as amended: when a named path does not exist the run exits with status 1
\* and one error line; in format mode the line names the missing path, in
\* compare mode it is the fixed text that names no path.
MissingFileReported ==
    (pc = "exit" /\ SomeArgMissing) =>
        /\ status = 1
        /\ Len(stderr) = 1
        /\ mode = "format" =>
              /\ stderr[1].fmt = "Error: File {} does not exist"
              /\ stderr[1].values = <<args[1]>>
        /\ mode = "compare" =>
              /\ stderr[1].fmt = "Error: One or both files do not exist"
              /\ stderr[1].values = <<>>

\* C3, its case: a format run on a path that does not exist has ended
MissingFileRun ==
    /\ pc = "exit"
    /\ mode = "format"
    /\ SomeArgMissing
    /\ Mentions(stderr, args[1])

\* C9: something is on standard output only when the existence check passed
\* and every file of the mode was read; a failed existence check is followed
\* by no parsing; and a run whose existence check or read failed ends with
\* status 1 and nothing on standard output.
OutputAfterReading ==
    /\ stdout # <<>> => (~SomeArgMissing /\ Len(envs) = Len(args))
    /\ SomeArgMissing => envs = <<>>
    /\ (pc = "exit" /\ (SomeArgMissing \/ SomeArgUnreadable)) =>
          (status = 1 /\ stdout = <<>>)

\* C9, its case: a compare run whose second read failed after the first file
\* was parsed
SecondReadFailed ==
    /\ pc = "exit"
    /\ mode = "compare"
    /\ ~SomeArgMissing
    /\ fs[args[1]].readable
    /\ ~fs[args[2]].readable
    /\ Len(envs) = 1
    /\ status = 1
    /\ stdout = <<>>

====
